---- MODULE Spec2Model ----
(***************************************************************************)
(* Model of the RNWebSocket connection manager (src/src/RNWebsocket.ts,    *)
(* class RNWebSocket, lines 109-321).  Every handler of the class is one   *)
(* action; the private methods are operators over a record of the          *)
(* manager's fields, composed in the order the code calls them.            *)
(*                                                                         *)
(* The transport (the platform WebSocket) is the environment: each handle  *)
(* created by `new WebSocket` has a readyState and delivers open, close,   *)
(* error and message notifications to the handlers installed on it.  The   *)
(* handlers stay installed on a handle for its whole life (the code never  *)
(* detaches them), and all of them act on the one manager.                 *)
(***************************************************************************)
EXTENDS Integers, Sequences, FiniteSets, TLC

\* ---- bounds -------------------------------------------------------------
MaxTransports == 4      \* transport handles created in one run
MaxAttemptsCfg == 1     \* largest configured maxReconnectAttempts explored
MaxHist == 4            \* length of the recorded prefix of handler calls
MaxListeners == 2       \* distinct listener callables
MaxHubOps == 3          \* registrations that add a listener in one run

VARIABLES
    config,             \* this.config (immutable after construction) + url validity
    status,             \* this.status
    manualClose,        \* this.manualClose
    reconnectCount,     \* this.reconnectCount
    ws,                 \* this.ws: handle id, 0 = null
    connectionTimeout,  \* this.connectionTimeout: timer id, 0 = null
    tstate,             \* readyState of every transport handle
    timers,             \* state of the timer armed together with handle k
    events,             \* events emitted by the last handler, in order
    sendInvoked,        \* the last handler reached the transport's send
    op,                 \* the last handler that ran
    hist,               \* the first MaxHist handlers that ran (history)
    closedBy,           \* history: who asked transport k to close, while it is closing
    gaveUp,             \* history: the exhaustion error was emitted and the caller
                        \*          has not called connect() since
    eventListeners,     \* this.eventListeners: per event kind, the Set of
                        \*          listeners in insertion order
    invoked,            \* listeners called by the last handler, in order
    mirror,             \* history: the status carried by the most recent
                        \*          statusChange emission (what a listener holds)
    regStamp,           \* history: per kind and listener, when the registration
                        \*          that made it present happened (0 = absent)
    hubClock            \* history: number of registrations that added a listener

vars == <<config, status, manualClose, reconnectCount, ws, connectionTimeout,
          tstate, timers, events, sendInvoked, op, hist, closedBy, gaveUp,
          eventListeners, invoked, mirror, regStamp, hubClock>>

\* ---- enumerations -------------------------------------------------------
CONNECTING == "CONNECTING"
CONNECTED == "CONNECTED"
DISCONNECTED == "DISCONNECTED"
WebSocketStatus == {CONNECTING, CONNECTED, DISCONNECTED}

Handles == 1..MaxTransports
Listeners == 1..MaxListeners
\* the event kinds of WebSocketEventMap
Kinds == {"connect", "disconnect", "message", "error", "statusChange"}

\* one emitted event: its kind and the argument passed to the listeners
StatusChangeEv(st) == [kind |-> "statusChange", status |-> st]
ErrorEv(code) == [kind |-> "error", code |-> code]
ConnectEv == [kind |-> "connect"]
DisconnectEv == [kind |-> "disconnect"]
MessageEv == [kind |-> "message"]

\* ---- the manager's fields as one record ----------------------------------
Cur ==
    [status |-> status, manualClose |-> manualClose,
     reconnectCount |-> reconnectCount, ws |-> ws,
     connectionTimeout |-> connectionTimeout,
     tstate |-> tstate, timers |-> timers,
     events |-> <<>>, sendInvoked |-> FALSE, invoked |-> <<>>]

Created(ts) == {t \in Handles : ts[t] # "none"}
NumCreated(ts) == Cardinality(Created(ts))
\* created and not yet closed or asked to close
Live(ts) == {t \in Handles : ts[t] \in {"connecting", "open"}}

\* ---- EventHub -------------------------------------------------------------
Range(q) == {q[i] : i \in 1..Len(q)}

\* Set.add: a listener already present keeps its place
onNoDedupe(reg, kind, l) == [reg EXCEPT ![kind] = Append(@, l)]

on(reg, kind, l) ==
    IF l \in Range(reg[kind]) THEN reg ELSE [reg EXCEPT ![kind] = Append(@, l)]

\* Set.delete
off(reg, kind, l) ==
    [reg EXCEPT ![kind] = SelectSeq(@, LAMBDA x : x # l)]

\* emit: forEach over the Set of the event's kind, in insertion order
emit(s, e) ==
    [s EXCEPT !.events = Append(@, e),
              !.invoked = @ \o eventListeners[e.kind]]

updateStatus(s, newStatus) ==
    emit([s EXCEPT !.status = newStatus], StatusChangeEv(newStatus))

handleError(s, code) == emit(s, ErrorEv(code))

handleMessage(s) == emit(s, MessageEv)

\* ---- timers ---------------------------------------------------------------
clearConnectionTimeout(s) ==
    IF s.connectionTimeout # 0
    THEN [s EXCEPT
            !.timers[s.connectionTimeout] =
                IF @ = "pending" THEN "done" ELSE @,
            !.connectionTimeout = 0]
    ELSE s

\* the timer armed for handle k carries id k; the previous handle of
\* this.connectionTimeout is overwritten, not cleared
startConnectionTimeout(s, k) ==
    [s EXCEPT !.timers[k] = "pending", !.connectionTimeout = k]

resetReconnectCount(s) == [s EXCEPT !.reconnectCount = 0]

\* ---- transport calls made by the manager -----------------------------------
\* WebSocket.close(): a handle that is connecting or open starts closing and
\* will deliver a close notification; on a closing or closed handle it does nothing
wsClose(ts, t) ==
    IF ts[t] \in {"connecting", "open"} THEN [ts EXCEPT ![t] = "closing"] ELSE ts

\* WebSocket.send() throws on a handle that is still connecting
wsSendThrows(ts, t) == ts[t] = "connecting"

\* ---- connect / disconnect ---------------------------------------------------
disconnectNoClose(s) ==
    [clearConnectionTimeout(s) EXCEPT !.ws = 0, !.status = DISCONNECTED]

disconnect(s) ==
    LET s1 == clearConnectionTimeout(s)
        s2 == IF s1.ws # 0
              THEN [s1 EXCEPT !.tstate = wsClose(@, s1.ws), !.ws = 0]
              ELSE s1
    IN  [s2 EXCEPT !.status = DISCONNECTED]

ConnectGuardBug(s) == s.status = CONNECTING
ConnectGuard(s) == s.status = CONNECTING \/ s.status = CONNECTED

connect(s) ==
    IF ConnectGuard(s) THEN s
    ELSE
        LET s1 == updateStatus([s EXCEPT !.manualClose = FALSE], CONNECTING)
            k  == NumCreated(s.tstate) + 1
        IN  IF config.badUrl
            THEN handleError(s1, 0)
            ELSE startConnectionTimeout(
                     [s1 EXCEPT !.ws = k, !.tstate[k] = "connecting"], k)

\* connect() would have to create a handle beyond the bound
NeedsHandle(s) == ~ConnectGuard(s) /\ ~config.badUrl
HasRoom(s) == NumCreated(s.tstate) < MaxTransports

\* ---- reconnection policy ------------------------------------------------------
Exhausted(s) ==
    s.manualClose
    \/ (config.maxReconnectAttempts # 0
        /\ config.maxReconnectAttempts < s.reconnectCount)

handleReconnectionCountsAlways(s) ==
    LET s1 == [s EXCEPT !.reconnectCount = @ + 1]
    IN  IF Exhausted(s) THEN handleError(s1, 1) ELSE connect(s1)

handleReconnection(s) ==
    IF Exhausted(s)
    THEN handleError(s, 1)
    ELSE connect([s EXCEPT !.reconnectCount = @ + 1])

\* ---- transport notification handlers -------------------------------------------
onopenNoReset(s) ==
    emit(updateStatus(clearConnectionTimeout(s), CONNECTED), ConnectEv)

onopen(s) ==
    LET s1 == clearConnectionTimeout(s)
        s2 == updateStatus(s1, CONNECTED)
        s3 == resetReconnectCount(s2)
    IN  emit(s3, ConnectEv)

oncloseEmitFirst(s) ==
    LET s1 == emit(s, DisconnectEv)
        s2 == updateStatus(s1, DISCONNECTED)
    IN  IF ~s2.manualClose THEN handleReconnection(s2) ELSE s2

onclose(s) ==
    LET s1 == updateStatus(s, DISCONNECTED)
        s2 == emit(s1, DisconnectEv)
    IN  IF ~s2.manualClose THEN handleReconnection(s2) ELSE s2

onerrorDisconnects(s) == disconnect(handleError(s, 0))

onerror(s) == handleError(s, 0)

onmessage(s) == handleMessage(s)

ontimeout(s) ==
    IF s.status # CONNECTED
    THEN disconnect(handleError(s, 0))
    ELSE s

\* ---- public operations -----------------------------------------------------------
sendGuardBug(s) ==
    IF s.status = DISCONNECTED
    THEN handleError(s, -1)
    ELSE IF s.ws = 0 THEN s
         ELSE LET s1 == [s EXCEPT !.sendInvoked = TRUE]
              IN  IF wsSendThrows(s.tstate, s.ws) THEN handleError(s1, -1) ELSE s1

send(s) ==
    IF s.status # CONNECTED
    THEN handleError(s, -1)
    ELSE IF s.ws = 0 THEN s
         ELSE LET s1 == [s EXCEPT !.sendInvoked = TRUE]
              IN  IF wsSendThrows(s.tstate, s.ws) THEN handleError(s1, -1) ELSE s1

closeNoFlag(s) == disconnect(s)

close(s) == disconnect([s EXCEPT !.manualClose = TRUE])

\* ---- committing a handler's result ------------------------------------------------
\* hist holds the handlers run so far while there are at most MaxHist of them
Overflow == <<"more">>

Record(name) ==
    /\ UNCHANGED <<regStamp, hubClock>>
    /\ op' = name
    /\ hist' = IF hist # Overflow /\ Len(hist) < MaxHist
               THEN Append(hist, name) ELSE Overflow

\* who asked each handle to close, recorded when a handler moves it to closing
MarkClosed(s, by) ==
    closedBy' = [t \in Handles |->
                    IF tstate[t] # "closing" /\ s.tstate[t] = "closing"
                    THEN by ELSE closedBy[t]]

\* the status argument of the last statusChange among evs, else prev
LastStatusChange(evs, prev) ==
    LET idx == {i \in 1..Len(evs) : evs[i].kind = "statusChange"}
    IN  IF idx = {} THEN prev
        ELSE evs[CHOOSE i \in idx : \A j \in idx : j <= i].status

Commit(s) ==
    /\ status' = s.status
    /\ manualClose' = s.manualClose
    /\ reconnectCount' = s.reconnectCount
    /\ ws' = s.ws
    /\ connectionTimeout' = s.connectionTimeout
    /\ tstate' = s.tstate
    /\ timers' = s.timers
    /\ events' = s.events
    /\ sendInvoked' = s.sendInvoked
    /\ invoked' = s.invoked
    /\ mirror' = LastStatusChange(s.events, mirror)
    /\ UNCHANGED <<config, eventListeners>>

\* ---- initial state: the constructor -------------------------------------------------
Init ==
    /\ config \in [maxReconnectAttempts : 0..MaxAttemptsCfg,
                   reconnect : BOOLEAN, badUrl : BOOLEAN]
    /\ status = DISCONNECTED
    /\ manualClose = FALSE
    /\ reconnectCount = 0
    /\ ws = 0
    /\ connectionTimeout = 0
    /\ tstate = [t \in Handles |-> "none"]
    /\ timers = [t \in Handles |-> "none"]
    /\ events = <<>>
    /\ sendInvoked = FALSE
    /\ op = "init"
    /\ hist = <<>>
    /\ closedBy = [t \in Handles |-> "none"]
    /\ gaveUp = FALSE
    /\ eventListeners = [k \in Kinds |-> <<>>]
    /\ invoked = <<>>
    /\ mirror = DISCONNECTED
    /\ regStamp = [k \in Kinds |-> [l \in Listeners |-> 0]]
    /\ hubClock = 0

\* ---- actions ----------------------------------------------------------------------------
Connect ==
    /\ NeedsHandle(Cur) => HasRoom(Cur)
    /\ Commit(connect(Cur))
    /\ Record("connect")
    /\ gaveUp' = FALSE
    /\ UNCHANGED closedBy

Send ==
    /\ Commit(send(Cur))
    /\ Record("send")
    /\ UNCHANGED <<closedBy, gaveUp>>

Close ==
    /\ Commit(close(Cur))
    /\ Record("close")
    /\ MarkClosed(close(Cur), "close")
    /\ UNCHANGED gaveUp

OnOpen(t) ==
    /\ tstate[t] = "connecting"
    /\ Commit(onopen([Cur EXCEPT !.tstate[t] = "open"]))
    /\ Record("onopen")
    /\ UNCHANGED <<closedBy, gaveUp>>

OnClose(t) ==
    /\ tstate[t] \in {"connecting", "open", "closing"}
    /\ LET s0 == [Cur EXCEPT !.tstate[t] = "closed"]
       IN  /\ (~s0.manualClose /\ ~Exhausted(s0) /\ ~config.badUrl) => HasRoom(Cur)
           /\ Commit(onclose(s0))
    /\ Record("onclose")
    /\ closedBy' = [closedBy EXCEPT ![t] = "none"]
    /\ gaveUp' = (gaveUp \/ ErrorEv(1) \in Range(events'))

OnError(t) ==
    /\ tstate[t] \in {"connecting", "open", "closing"}
    /\ Commit(onerror(Cur))
    /\ Record("onerror")
    /\ UNCHANGED <<closedBy, gaveUp>>

OnMessage(t) ==
    /\ tstate[t] = "open"
    /\ Commit(onmessage(Cur))
    /\ Record("onmessage")
    /\ UNCHANGED <<closedBy, gaveUp>>

OnTimeout(k) ==
    /\ timers[k] = "pending"
    /\ LET s == ontimeout([Cur EXCEPT !.timers[k] = "done"])
       IN  Commit(s) /\ MarkClosed(s, "timeout")
    /\ Record("ontimeout")
    /\ UNCHANGED gaveUp

Next ==
    \/ Connect
    \/ Send
    \/ Close
    \/ \E t \in Handles : OnOpen(t)
    \/ \E t \in Handles : OnClose(t)
    \/ \E t \in Handles : OnError(t)
    \/ \E t \in Handles : OnMessage(t)
    \/ \E k \in Handles : OnTimeout(k)

Spec == Init /\ [][Next]_vars

\* ---- the listener registry on its own ---------------------------------------------
\* on, off and the public emit touch no field of the state machine, and the
\* state machine never writes the registry: they are explored separately.
\* one event of every kind; the arguments are handed to the listeners as
\* they are and do not influence which listeners run
HubEvents ==
    {ConnectEv, DisconnectEv, MessageEv, ErrorEv(0), StatusChangeEv(status)}

HubRecord(name) ==
    /\ op' = name
    /\ UNCHANGED <<hist, closedBy, gaveUp>>

Keep ==
    /\ UNCHANGED <<config, status, manualClose, reconnectCount, ws,
                   connectionTimeout, tstate, timers, mirror>>
    /\ events' = <<>>
    /\ sendInvoked' = FALSE
    /\ invoked' = <<>>

On(kind, l) ==
    /\ regStamp[kind][l] = 0 => hubClock < MaxHubOps
    /\ eventListeners' = on(eventListeners, kind, l)
    /\ IF regStamp[kind][l] = 0
       THEN /\ hubClock' = hubClock + 1
            /\ regStamp' = [regStamp EXCEPT ![kind][l] = hubClock + 1]
       ELSE UNCHANGED <<regStamp, hubClock>>
    /\ Keep
    /\ HubRecord("on")

Off(kind, l) ==
    /\ eventListeners' = off(eventListeners, kind, l)
    /\ regStamp' = [regStamp EXCEPT ![kind][l] = 0]
    /\ UNCHANGED hubClock
    /\ Keep
    /\ HubRecord("off")

Emit(e) ==
    /\ Commit(emit(Cur, e))
    /\ UNCHANGED <<regStamp, hubClock>>
    /\ HubRecord("emit")

HubNext ==
    \/ \E kind \in Kinds, l \in Listeners : On(kind, l)
    \/ \E kind \in Kinds, l \in Listeners : Off(kind, l)
    \/ \E e \in HubEvents : Emit(e)

\* the registry does not depend on the configuration: the default one is used
HubInit ==
    /\ Init
    /\ config = [maxReconnectAttempts |-> 0, reconnect |-> FALSE, badUrl |-> FALSE]

HubSpec == HubInit /\ [][HubNext]_vars

\* a transport that was asked to close delivers its close notification
\* the configuration of the timeout scenario: a URL the constructor
\* accepts and no ceiling on the attempts (the default)
LiveInit == Init /\ ~config.badUrl /\ config.maxReconnectAttempts = 0

LiveSpec ==
    /\ LiveInit
    /\ [][Next]_vars
    /\ WF_vars(\E t \in Handles : tstate[t] = "closing" /\ OnClose(t))

TypeOK ==
    /\ status \in WebSocketStatus
    /\ manualClose \in BOOLEAN
    /\ reconnectCount \in 0..MaxTransports
    /\ ws \in 0..MaxTransports
    /\ connectionTimeout \in 0..MaxTransports
    /\ tstate \in [Handles -> {"none", "connecting", "open", "closing", "closed"}]
    /\ timers \in [Handles -> {"none", "pending", "done"}]

\* ---- runs named by the scenarios ----------------------------------------------------
\* the caller connected once and since then only unexpected transport
\* closures happened (no open notification, no close() call, no timer)
OnlyClosures ==
    /\ hist # Overflow
    /\ Len(hist) >= 2
    /\ hist[1] = "connect"
    /\ \A i \in 2..Len(hist) : hist[i] = "onclose"

Emitted(e) == e \in Range(events)

\* ---- C1 -----------------------------------------------------------------------------
\* C1: with maxReconnectAttempts = N > 0 and a transport that keeps closing
\* unexpectedly without ever opening, at most N reconnect attempts (new
\* transports created by handleReconnection) precede the code-1 error.
C1_AtMostNAttempts ==
    (OnlyClosures /\ config.maxReconnectAttempts > 0 /\ Emitted(ErrorEv(1)))
        => NumCreated(tstate) - 1 <= config.maxReconnectAttempts

\* ---- C2 -----------------------------------------------------------------------------
\* C2: close() leaves status DISCONNECTED, and the close notification of a
\* transport that close() asked to close never creates a transport nor
\* increments the reconnect counter, whatever was interleaved in between.
C2_CloseSuppressesReconnect ==
    [][ /\ (op' = "close" => status' = DISCONNECTED)
        /\ \A t \in Handles :
              (closedBy[t] = "close" /\ tstate[t] = "closing" /\ tstate'[t] = "closed")
                  => /\ NumCreated(tstate') = NumCreated(tstate)
                     /\ reconnectCount' = reconnectCount ]_vars

\* ---- C3 -----------------------------------------------------------------------------
\* C3: at most one transport handle created by the manager is live
\* (created and neither closed nor asked to close) in every reachable state.
C3_OneLiveTransport == Cardinality(Live(tstate)) <= 1

\* ---- C4 -----------------------------------------------------------------------------
\* C4: connect() called while status is CONNECTING or CONNECTED creates no
\* transport, arms no timer, emits no event and leaves status, flag,
\* counter and handle unchanged.
C4_RedundantConnectNoOp ==
    [][ (op' = "connect" /\ status \in {CONNECTING, CONNECTED})
            => /\ events' = <<>>
               /\ UNCHANGED <<status, manualClose, reconnectCount, ws,
                              connectionTimeout, tstate, timers>> ]_vars

C4_Witness ==
    /\ op = "connect" /\ events = <<>>
    /\ status = CONNECTED /\ NumCreated(tstate) = 1

\* ---- C5 -----------------------------------------------------------------------------
\* C5: when the transport constructor throws inside connect(), a code-0
\* error is emitted and status is still DISCONNECTED after connect() returns.
C5_ThrowLeavesDisconnected ==
    (op = "connect" /\ config.badUrl /\ Emitted(ErrorEv(0)))
        => status = DISCONNECTED

\* ---- C6 -----------------------------------------------------------------------------
\* C6: after connect(), when the transport neither opens nor closes on its
\* own and the connection timer expires, a code-0 error is emitted, status
\* becomes DISCONNECTED, and (nothing else intervening) a reconnect attempt
\* creating a fresh transport eventually follows.
TimedOut == hist = <<"connect", "ontimeout">>

ReconnectedOrInterrupted ==
    /\ hist # Overflow
    /\ Len(hist) = 3
    /\ hist[3] = "onclose"
          => /\ NumCreated(tstate) = 2
             /\ status = CONNECTING
             /\ ws = 2

C6_TimeoutThenReconnect ==
    /\ [](TimedOut => /\ events = <<ErrorEv(0)>>
                      /\ status = DISCONNECTED
                      /\ ~manualClose)
    /\ (TimedOut ~> ReconnectedOrInterrupted)

C6_Witness ==
    /\ hist = <<"connect", "ontimeout", "onclose">>
    /\ NumCreated(tstate) = 2
    /\ status = CONNECTING

\* ---- C7 -----------------------------------------------------------------------------
\* C7: send() while status is not CONNECTED never invokes the transport's
\* send, emits exactly one error of code -1, and leaves status, counter,
\* flag and handle unchanged.
C7_SendWhileNotConnected ==
    [][ (op' = "send" /\ status # CONNECTED)
            => /\ events' = <<ErrorEv(-1)>>
               /\ ~sendInvoked'
               /\ UNCHANGED <<status, manualClose, reconnectCount, ws,
                              connectionTimeout, tstate, timers>> ]_vars

C7_Witness ==
    /\ op = "send" /\ status = CONNECTING
    /\ events = <<ErrorEv(-1)>> /\ ~sendInvoked

\* ---- C8 -----------------------------------------------------------------------------
\* C8: once the code-1 exhaustion error is emitted, until the caller calls
\* connect() again status stays DISCONNECTED, no transport is created and
\* no further code-1 error is emitted.
C8_ExhaustionIsFinal ==
    /\ [](gaveUp => status = DISCONNECTED)
    /\ [][ (gaveUp /\ gaveUp')
              => /\ NumCreated(tstate') = NumCreated(tstate)
                 /\ ErrorEv(1) \notin Range(events') ]_vars

\* ---- C9 -----------------------------------------------------------------------------
\* C9: whenever status is CONNECTED the reconnect counter is 0.
C9_ConnectedCounterZero == status = CONNECTED => reconnectCount = 0

C9_Witness ==
    /\ hist = <<"connect", "onclose", "onopen">>
    /\ status = CONNECTED /\ ws = 2 /\ reconnectCount = 0

\* ---- C10 ----------------------------------------------------------------------------
\* C10: connect(), open notification, close(), close notification: the
\* connect event is emitted once, then the disconnect event once, the final
\* status is DISCONNECTED and no reconnect attempt is made.
C10_OpenCloseScenario ==
    /\ hist = <<"connect", "onopen">>
          => events = <<StatusChangeEv(CONNECTED), ConnectEv>>
    /\ hist = <<"connect", "onopen", "close">>
          => events = <<>> /\ status = DISCONNECTED
    /\ hist = <<"connect", "onopen", "close", "onclose">>
          => /\ events = <<StatusChangeEv(DISCONNECTED), DisconnectEv>>
             /\ status = DISCONNECTED
             /\ NumCreated(tstate) = 1
             /\ reconnectCount = 0

C10_Witness ==
    /\ hist = <<"connect", "onopen", "close", "onclose">>
    /\ status = DISCONNECTED /\ tstate[1] = "closed"

\* ---- C11 ----------------------------------------------------------------------------
\* C11: within one handler, every connect event is preceded by a
\* statusChange(CONNECTED) emission and every disconnect event by a
\* statusChange(DISCONNECTED) emission.
PrecededBy(e, first) ==
    \A i \in 1..Len(events) :
        events[i] = e => \E j \in 1..(i - 1) : events[j] = first

C11_StatusChangeFirst ==
    /\ PrecededBy(ConnectEv, StatusChangeEv(CONNECTED))
    /\ PrecededBy(DisconnectEv, StatusChangeEv(DISCONNECTED))

C11_Witness ==
    /\ op = "onclose"
    /\ Len(events) >= 2
    /\ events[1] = StatusChangeEv(DISCONNECTED)
    /\ events[2] = DisconnectEv

\* ---- C12 ----------------------------------------------------------------------------
\* C12: in every state where status is CONNECTED, and in every state right
\* after close(), no connection timer armed by an earlier connect() is pending.
C12_NoPendingTimer ==
    (status = CONNECTED \/ op = "close")
        => \A k \in Handles : timers[k] # "pending"

\* ---- C13 ----------------------------------------------------------------------------
\* C13: a transport error notification emits exactly one error event and
\* leaves status, counter, flag, handle and connection timer unchanged.
C13_ErrorNoTransition ==
    [][ op' = "onerror"
            => /\ events' = <<ErrorEv(0)>>
               /\ UNCHANGED <<status, manualClose, reconnectCount, ws,
                              connectionTimeout, tstate, timers>> ]_vars

C13_Witness ==
    /\ op = "onerror" /\ events = <<ErrorEv(0)>>
    /\ status = CONNECTING /\ ws # 0 /\ timers[ws] = "pending"

\* ---- C14 ----------------------------------------------------------------------------
\* C14: status starts at DISCONNECTED, is always CONNECTING, CONNECTED or
\* DISCONNECTED, and changes only along DISCONNECTED -> CONNECTING,
\* CONNECTING -> CONNECTED and CONNECTING|CONNECTED -> DISCONNECTED; never
\* from DISCONNECTED directly to CONNECTED.  (A close notification that
\* reconnects passes through DISCONNECTED inside the one handler.)
Legal(a, b) ==
    \/ a = DISCONNECTED /\ b = CONNECTING
    \/ a = CONNECTING /\ b = CONNECTED
    \/ a \in {CONNECTING, CONNECTED} /\ b = DISCONNECTED

C14_LegalTransitions ==
    /\ [](status \in WebSocketStatus)
    /\ [](op = "init" => status = DISCONNECTED)
    /\ [][ status' # status
              => \/ Legal(status, status')
                 \/ /\ op' = "onclose"
                    /\ status' = CONNECTING
                    /\ events'[1] = StatusChangeEv(DISCONNECTED) ]_vars

\* ---- C15 ----------------------------------------------------------------------------
\* C15: the reconnect counter is non-negative; it is incremented by exactly 1
\* by each reconnect attempt of the reconnection policy and only then, reset
\* to 0 only by an open notification, and left unchanged by connect(),
\* close(), send(), timer expiry, error notifications and the exhaustion branch.
ReconnectAttempted(evs) ==
    /\ StatusChangeEv(CONNECTING) \in Range(evs)
    /\ ErrorEv(1) \notin Range(evs)

C15_CounterChanges ==
    /\ [](reconnectCount >= 0)
    /\ [][ /\ op' = "onopen" => reconnectCount' = 0
           /\ op' = "onclose" =>
                 reconnectCount' = IF ReconnectAttempted(events')
                                   THEN reconnectCount + 1 ELSE reconnectCount
           /\ op' \notin {"onopen", "onclose"} => reconnectCount' = reconnectCount ]_vars

C15_Witness ==
    /\ op = "onclose" /\ Emitted(ErrorEv(1))
    /\ reconnectCount = config.maxReconnectAttempts + 1

\* ---- C18 ----------------------------------------------------------------------------
\* C18: an open or close notification of a transport that the manager has
\* released or replaced, delivered while a newer transport is the current
\* handle, changes neither status nor the reconnect counter and creates no
\* transport.
Notifies(t) ==
    \/ tstate[t] = "connecting" /\ tstate'[t] = "open"
    \/ tstate[t] # "closed" /\ tstate'[t] = "closed"

C18_StaleNotificationsIgnored ==
    [][ \A t \in Handles :
           (op' \in {"onopen", "onclose"} /\ Notifies(t) /\ ws > t)
               => /\ status' = status
                  /\ reconnectCount' = reconnectCount
                  /\ NumCreated(tstate') = NumCreated(tstate) ]_vars

\* ---- C19 ----------------------------------------------------------------------------
\* C19: when the timer armed by one connect() fires, it emits the timeout
\* error and closes a transport only if that attempt's transport is still
\* the current handle and status is still CONNECTING.
Fires(k) == op' = "ontimeout" /\ timers[k] = "pending" /\ timers'[k] = "done"

C19_TimerOwnAttemptOnly ==
    [][ \A k \in Handles :
           (Fires(k) /\ (ErrorEv(0) \in Range(events') \/ tstate' # tstate))
               => (ws = k /\ status = CONNECTING) ]_vars

\* ---- C20 ----------------------------------------------------------------------------
\* C20: when config.reconnect is false, an unexpected transport closure
\* (manual-close flag not set) leaves the manager DISCONNECTED: no transport is created and the reconnect counter
\* is unchanged.
C20_ReconnectFlagGates ==
    [][ (op' = "onclose" /\ ~config.reconnect /\ ~manualClose)
            => /\ status' = DISCONNECTED
               /\ NumCreated(tstate') = NumCreated(tstate)
               /\ reconnectCount' = reconnectCount ]_vars

\* ---- C16 ----------------------------------------------------------------------------
\* C16: after any sequence of on/off calls, emit(kind) invokes exactly the
\* listeners currently registered for that kind, each once, in the order
\* of their registration; registering twice is idempotent, an unsubscribed
\* listener and the listeners of other kinds are not invoked.
Registered(kind) == {l \in Listeners : regStamp[kind][l] > 0}

C17_MirrorHoldsStatus == mirror = status
====
